---- MODULE Spec2Model ----
(***************************************************************************)
(* Verification model of cape-machine-reader: the span decoder             *)
(* (cape_answer_decoder.find_answer_spans), the span materializer          *)
(* (cape_answer_decoder.find_best_spans) and the reader orchestrator       *)
(* (cape_machine_reader_core.MachineReader).                               *)
(*                                                                         *)
(* Numbers.  A probability vector is held as a vector of natural-number    *)
(* weights; the probability of entry i of vector v is v[i] / total, where  *)
(* total is the sum of the vector as the caller supplied it.  All the      *)
(* comparisons the code makes are between products of one start and one    *)
(* end probability, so they are decided exactly on the weights; the decay  *)
(* factor (1 - 0.01 * d) is held as (PROPORTION_DEN - d) / PROPORTION_DEN. *)
(* Floating-point rounding is not modelled: arithmetic is exact.           *)
(***************************************************************************)
EXTENDS Integers, Sequences, FiniteSets, TLC

\* ---------------------------------------------------------------- bounds
MaxN == 5              \* longest document, in tokens
MinWeight == 100       \* smallest non-zero weight of an input vector
MaxWeight == 101       \* largest weight of an input vector
MaxTotal == 202        \* largest sum of the weights of a decoder input vector
MaxTopK == 2           \* largest configured top_k
MaxThreshold == 4      \* the non-zero configured threshold, in units of 1 / ThresholdDen
ThresholdDen == 100
LongN == 102           \* tokens of the long documents the scan is run on alone
MaxMarks == 3          \* positions at each end of a long document that may hold mass

\* ------------------------------------------------------ program constants
EPSILON_DEN == 1000000          \* EPSILON = 1e-6 = 1 / EPSILON_DEN
RESET_RANGE == 1
INITIAL_CONTINUATIONS == 100    \* int(1e2)
PROPORTION_DEN == 100           \* proportion_to_decay = 0.01 = 1 / PROPORTION_DEN

VARIABLES
    \* ---- find_answer_spans (one decoding session)
    y1_list,                  \* the session's start vector (weights)
    y2_list,                  \* the session's end vector (weights)
    norm,                     \* <<sum of y1 weights, sum of y2 weights>> at session start
    already_used,             \* set of closed intervals <<lo, hi>>
    remaining_continuations,
    pc,                       \* the decoder generator: "none", "suspended", "running", "ended"
    selected,                 \* the span chosen by the latest iteration, or <<>>
    suppressed,               \* history: the spans the iterations have selected and suppressed
    event,                    \* how the latest iteration ended: "none", "skip", "yield"
    last_score,               \* the score of the latest yield, or NoScore
    yielded,                  \* the half-open suppressed ranges <<a, b>> of the spans yielded
    \* ---- find_best_spans
    yp_start,                 \* the start vector its caller handed over
    yp_end,                   \* the end vector its caller handed over
    counter,
    records,                  \* the AnswerSpan records it has yielded
    \* ---- MachineReader
    reader_pc,                \* position of the reader call
    n_tokens,                 \* token count of document_text
    configuration,            \* MachineReaderConfiguration
    all_the_logits,           \* per chunk, [start |-> vector, end |-> vector]
    all_the_overlaps,         \* per chunk, <<overlap_start, overlap_end>>
    answers,                  \* the MachineReaderAnswer records put out
    model_calls,              \* calls made to the model's get_document_embedding / get_logits
    error,                    \* the exception that ended the call, or "none"
    \* ---- calls made directly on the API
    call,                     \* the arguments of the call under way, [op |-> "none"] if none
    result,                   \* what the call returned, [kind |-> "none"] if nothing yet
    sessions                  \* concurrent find_best_spans sessions, by session number

decoder_vars == <<y1_list, y2_list, norm, already_used, remaining_continuations,
                  pc, selected, suppressed, event, last_score, yielded>>

spans_vars == <<yp_start, yp_end, counter, records>>

reader_vars == <<reader_pc, n_tokens, configuration, all_the_logits, all_the_overlaps,
                 answers, model_calls, error>>

api_vars == <<call, result, sessions>>

vars == <<decoder_vars, spans_vars, reader_vars, api_vars>>

NoScore == 0 - 1

NoCall == [op |-> "none"]

NoResult == [kind |-> "none"]

\* --------------------------------------------------------------- helpers
Max(a, b) == IF a >= b THEN a ELSE b

Min(a, b) == IF a <= b THEN a ELSE b

len(v) == Cardinality(DOMAIN v)

RECURSIVE SumTo(_, _)
SumTo(v, i) == IF i < 0 THEN 0 ELSE v[i] + SumTo(v, i - 1)

sum(v) == SumTo(v, len(v) - 1)

\* ------------------------------------------------------ find_answer_spans
\* Mutant: the while test lets a sum equal to the bound through.
AtLeastEpsilon(y1, total) == sum(y1) * EPSILON_DEN >= total

\* The while test, sum(y1_list) > EPSILON, on weights that summed to total.
AboveEpsilon(y1, total) == sum(y1) * EPSILON_DEN > total

\* np.maximum.accumulate(v)[i]
RECURSIVE MaximumAccumulate(_, _)
MaximumAccumulate(v, i) ==
    IF i = 0 THEN v[0] ELSE Max(v[i], MaximumAccumulate(v, i - 1))

cummax_y_start(y1, i) == MaximumAccumulate(y1, i)

\* np.nonzero(y1_list == cummax_y_start)[0]
cummax_ind(y1) == {i \in DOMAIN y1 : y1[i] = cummax_y_start(y1, i)}

\* np.zeros_like(...) with cumargmax[cummax_ind] = cummax_ind, at index i
cumargmax(y1, i) == IF y1[i] = cummax_y_start(y1, i) THEN i ELSE 0

\* Mutant: the argmax is taken over the whole vector, not over the prefix 0 .. i.
argmax_of_whole_vector(y1, i) ==
    CHOOSE j \in cummax_ind(y1) : \A k \in cummax_ind(y1) : k <= j

\* np.maximum.accumulate(cumargmax)[i]
RECURSIVE cumargmax_y_start(_, _)
cumargmax_y_start(y1, i) ==
    IF i = 0 THEN cumargmax(y1, 0)
    ELSE Max(cumargmax(y1, i), cumargmax_y_start(y1, i - 1))

\* Mutant: the end probability is taken as it is, without the decay.
EndProbUndecayed(end_prob, i, cur_highest_start_index) == end_prob * PROPORTION_DEN

\* end_prob after the decay, times PROPORTION_DEN
DecayedEndProb(end_prob, i, cur_highest_start_index) ==
    Max(0, end_prob * (PROPORTION_DEN - (i - cur_highest_start_index)))

\* cur_max of the loop body at index i, times PROPORTION_DEN
CurMax(y1, y2, i) ==
    cummax_y_start(y1, i) * DecayedEndProb(y2[i], i, cumargmax_y_start(y1, i))

\* Mutant: a cur_max equal to highest_max replaces the candidate as well.
ReachesHighest(cur_max, highest_max) == cur_max >= highest_max

\* if cur_max > highest_max
ExceedsHighest(cur_max, highest_max) == cur_max > highest_max

\* The for loop from index i on; best.highest_max is held times PROPORTION_DEN.
RECURSIVE ScanFrom(_, _, _, _)
ScanFrom(i, best, y1, y2) ==
    IF i >= len(y2) THEN best
    ELSE IF ExceedsHighest(CurMax(y1, y2, i), best.highest_max)
         THEN ScanFrom(i + 1, [highest_max |-> CurMax(y1, y2, i),
                               opt_pos_start |-> cumargmax_y_start(y1, i),
                               opt_pos_end |-> i], y1, y2)
         ELSE ScanFrom(i + 1, best, y1, y2)

\* The (opt_pos_start, opt_pos_end) one iteration of the while loop arrives at.
BestSpan(y1, y2) ==
    ScanFrom(1, [highest_max |-> y1[0] * y2[0] * PROPORTION_DEN,
                 opt_pos_start |-> 0, opt_pos_end |-> 0], y1, y2)

range_start(opt_pos_start) == Max(0, opt_pos_start - RESET_RANGE)

range_end(n, opt_pos_end) == Min(n, opt_pos_end + RESET_RANGE)

\* Mutant: the slice written with zeros takes in the index b as well.
ZeroSliceClosed(v, a, b) == [i \in DOMAIN v |-> IF a <= i /\ i <= b THEN 0 ELSE v[i]]

\* v[a:b] = 0.0
ZeroSlice(v, a, b) == [i \in DOMAIN v |-> IF a <= i /\ i < b THEN 0 ELSE v[i]]

\* Mutant: the duplicate guard finds no intersection.
IntersectsNothing(used, a, b) == FALSE

\* already_used & interval[a, b] is non-empty; the intervals are closed
Intersects(used, a, b) == \E u \in used : Max(u[1], a) <= Min(u[2], b)

\* Mutant: the guard is applied without the test of remaining_continuations.
SkipsWithoutBudget(remaining, used, a, b) == Intersects(used, a, b)

\* Whether the iteration takes the continue branch.
SkipsCandidate(remaining, used, a, b) == remaining > 0 /\ Intersects(used, a, b)

\* remaining_continuations after an iteration
RemainingAfter(remaining, skip) == IF skip THEN remaining - 1 ELSE remaining

\* Mutant: the new interval replaces the used set.
UsedReplaced(remaining, used, skip, a, b) ==
    IF remaining > 0 /\ ~skip THEN {<<a, b>>} ELSE used

\* already_used after an iteration
UsedAfter(remaining, used, skip, a, b) ==
    IF remaining > 0 /\ ~skip THEN used \cup {<<a, b>>} ELSE used

\* Mutant: the score reported is the decayed product the scan compared.
DecayedSpanScore(s, e, y1, y2) ==
    (y1[s] * DecayedEndProb(y2[e], e, s)) \div PROPORTION_DEN

\* score = y1_list[opt_pos_start] * y2_list[opt_pos_end]
SpanScore(s, e, y1, y2) == y1[s] * y2[e]

\* From the chosen span on: score, reset and duplicate guard.
AfterBest(s, e, y1, y2, used, remaining) ==
    [span_word_indices |-> <<s, e>>,
     score     |-> SpanScore(s, e, y1, y2),
     a         |-> range_start(s),
     b         |-> range_end(len(y1), e),
     y1        |-> ZeroSlice(y1, range_start(s), range_end(len(y1), e)),
     y2        |-> ZeroSlice(y2, range_start(s), range_end(len(y1), e)),
     skipped   |-> SkipsCandidate(remaining, used, range_start(s), range_end(len(y1), e)),
     used      |-> UsedAfter(remaining, used,
                             SkipsCandidate(remaining, used, range_start(s),
                                            range_end(len(y1), e)),
                             range_start(s), range_end(len(y1), e)),
     remaining |-> RemainingAfter(remaining,
                                  SkipsCandidate(remaining, used, range_start(s),
                                                 range_end(len(y1), e)))]

\* One iteration of the while loop, on the session's state.
Iteration(y1, y2, used, remaining) ==
    CHOOSE it \in {AfterBest(best.opt_pos_start, best.opt_pos_end, y1, y2, used, remaining) :
                      best \in {BestSpan(y1, y2)}} : TRUE

\* Mutant: the decoder is handed the caller's vectors themselves, not copies.
CallerVectorAliased(v, a, b) == ZeroSlice(v, a, b)

\* The caller's vector after the session wrote zeros over [a, b) of its own vector:
\* find_best_spans hands the decoder copies (y1_list.copy(), y2_list.copy()), so the
\* write does not reach the caller's vector.  A session started on find_answer_spans
\* directly has no such vector (<<>>).
CallerVectorAfterReset(v, a, b) == v

\* The iterations' common part: every assignment up to the duplicate guard.
Iterate(it) ==
    /\ y1_list' = it.y1
    /\ y2_list' = it.y2
    /\ yp_start' = CallerVectorAfterReset(yp_start, it.a, it.b)
    /\ yp_end' = CallerVectorAfterReset(yp_end, it.a, it.b)
    /\ already_used' = it.used
    /\ remaining_continuations' = it.remaining
    /\ selected' = it.span_word_indices
    /\ suppressed' = suppressed \cup {it.span_word_indices}

\* An iteration whose candidate intersects a used interval: continue.
IterateSkip ==
    /\ pc = "running"
    /\ AboveEpsilon(y1_list, norm[1])
    /\ \E it \in {Iteration(y1_list, y2_list, already_used, remaining_continuations)} :
          /\ it.skipped
          /\ Iterate(it)
    /\ event' = "skip"
    /\ UNCHANGED <<norm, pc, last_score, yielded, counter, records, reader_vars, api_vars>>

\* An iteration that reaches the yield.
IterateYield ==
    /\ pc = "running"
    /\ AboveEpsilon(y1_list, norm[1])
    /\ \E it \in {Iteration(y1_list, y2_list, already_used, remaining_continuations)} :
          /\ ~it.skipped
          /\ Iterate(it)
          /\ last_score' = it.score
          /\ yielded' = yielded \cup {<<it.a, it.b>>}
    /\ event' = "yield"
    /\ pc' = "suspended"
    /\ UNCHANGED <<norm, counter, records, reader_vars, api_vars>>

\* The while test fails: the sequence ends.
Stop ==
    /\ pc = "running"
    /\ ~AboveEpsilon(y1_list, norm[1])
    /\ pc' = "ended"
    /\ UNCHANGED <<y1_list, y2_list, norm, already_used, remaining_continuations,
                   selected, suppressed, event, last_score, yielded, spans_vars,
                   reader_vars, api_vars>>

\* A consumer of find_answer_spans asks for the next span.
CallNext ==
    /\ pc = "suspended"
    /\ pc' = "running"
    /\ UNCHANGED <<y1_list, y2_list, norm, already_used, remaining_continuations,
                   selected, suppressed, event, last_score, yielded, spans_vars,
                   reader_vars, api_vars>>

\* ---------------------------------------------- a session of find_answer_spans
Weights == {0} \cup (MinWeight .. MaxWeight)

Vectors(n) == {v \in [0 .. n - 1 -> Weights] : sum(v) <= MaxTotal}

InitConfiguration ==
    [threshold_reader |-> 0, threshold_answer_in_document |-> 0, top_k |-> 1]

Init ==
    /\ \E n \in 1 .. MaxN :
          /\ y1_list \in Vectors(n)
          /\ y2_list \in Vectors(n)
    /\ norm = <<sum(y1_list), sum(y2_list)>>
    /\ already_used = {}
    /\ remaining_continuations = INITIAL_CONTINUATIONS
    /\ pc = "suspended"
    /\ selected = <<>>
    /\ suppressed = {}
    /\ event = "none"
    /\ last_score = NoScore
    /\ yielded = {}
    /\ yp_start = <<>>
    /\ yp_end = <<>>
    /\ counter = 0
    /\ records = <<>>
    /\ reader_pc = "none"
    /\ n_tokens = 0
    /\ configuration = InitConfiguration
    /\ all_the_logits = <<>>
    /\ all_the_overlaps = <<>>
    /\ answers = <<>>
    /\ model_calls = <<>>
    /\ error = "none"
    /\ call = NoCall
    /\ result = NoResult
    /\ sessions = <<>>

Next == CallNext \/ IterateSkip \/ IterateYield \/ Stop

Spec == Init /\ [][Next]_vars

\* The consumer keeps consuming: a step that is possible is eventually taken.
LiveSpec == Init /\ [][Next]_vars /\ WF_vars(Next)

\* ------------------------------------------------------- find_best_spans
LONG_TEXT_EXPANSION == 20       \* long_text_expansion_in_words: int=20

\* Mutant: the long range is not clipped to the document.
LongTextWordIndicesUnclipped(s, e, n, expansion) == <<s - expansion, e + expansion>>

\* long_text_word_indices for the span (s, e) of a document of n tokens
LongTextWordIndices(s, e, n, expansion) ==
    <<Max(0, s - expansion), Min(n - 1, e + expansion)>>

\* The AnswerSpan built from a yield of the decoder (token-level fields), for a document
\* of n tokens.
AnswerSpanOf(span, score, n, expansion) ==
    [word_indices      |-> span,
     long_word_indices |-> LongTextWordIndices(span[1], span[2], n, expansion),
     score             |-> score]

\* The AnswerSpan built from the decoder's latest yield, in a call that leaves
\* long_text_expansion_in_words at its default.
AnswerSpan == AnswerSpanOf(selected, last_score, len(yp_start), LONG_TEXT_EXPANSION)

\* ------------------------------------------------ MachineReader (the reader)
\* A logit is held as the weight w = exp(logit - c) for one fixed c, so that
\* softmax(logits)[i] = w[i] / sum(w): the numerators are the weights themselves.
softmax(logits) == [i \in DOMAIN logits |-> logits[i]]

LogitVectors(n) == [0 .. n - 1 -> MinWeight .. MaxWeight]

Thresholds == {0, MaxThreshold}

Configurations ==
    [threshold_reader : Thresholds,
     threshold_answer_in_document : Thresholds,
     top_k : 1 .. MaxTopK]

\* logits[overlap_start:len(logits) - overlap_end], as a sequence
RECURSIVE SliceFrom(_, _, _)
SliceFrom(v, a, b) == IF a >= b THEN <<>> ELSE <<v[a]>> \o SliceFrom(v, a + 1, b)

\* Mutant: the slice logits[overlap_start:-overlap_end], empty when overlap_end is 0.
TrimWithNegativeStop(logits, overlap) ==
    SliceFrom(logits, Min(overlap[1], len(logits)),
              IF overlap[2] = 0 THEN 0 ELSE Max(0, len(logits) - overlap[2]))

Trim(logits, overlap) ==
    LET n    == len(logits)
        stop == n - overlap[2]
    IN  SliceFrom(logits, Min(overlap[1], n),
                  IF stop >= 0 THEN Min(stop, n) ELSE Max(0, n + stop))

\* np.concatenate over zip(all_the_logits, all_the_overlaps), chunks k .. the last pair
RECURSIVE ConcatenateFrom(_, _, _, _)
ConcatenateFrom(k, which, logits, overlaps) ==
    IF k > Min(Len(logits), Len(overlaps)) THEN <<>>
    ELSE Trim(logits[k][which], overlaps[k]) \o ConcatenateFrom(k + 1, which, logits, overlaps)

ZeroBased(s) == [i \in 0 .. Len(s) - 1 |-> s[i + 1]]

logits_array_start(logits, overlaps) == ZeroBased(ConcatenateFrom(1, "start", logits, overlaps))

logits_array_end(logits, overlaps) == ZeroBased(ConcatenateFrom(1, "end", logits, overlaps))

\* Mutant: the length of the stitched array is not checked.
LengthUnchecked(stitched, n) == TRUE

\* assert len(logits_array_start) == self._count_tokens(all_combined_texts)
LengthMatches(stitched, n) == len(stitched) = n

\* Mutant: the placeholder score lies below 0.
score_below_zero == 0 - 1

score_answer_in_document == 0

\* Mutant: a score has to exceed its threshold.
ExceedsThresholds(score, cfg) ==
    /\ score * ThresholdDen > cfg.threshold_reader * norm[1] * norm[2]
    /\ score_answer_in_document * ThresholdDen > cfg.threshold_answer_in_document

\* Mutant: one threshold met is enough.
MeetsEitherThreshold(score, cfg) ==
    \/ score * ThresholdDen >= cfg.threshold_reader * norm[1] * norm[2]
    \/ score_answer_in_document * ThresholdDen >= cfg.threshold_answer_in_document

\* The test of the if in the for loop over answer_spans; the reader score is
\* score / (norm[1] * norm[2]) and a threshold is threshold / ThresholdDen.
MeetsThresholds(score, cfg) ==
    /\ score * ThresholdDen >= cfg.threshold_reader * norm[1] * norm[2]
    /\ score_answer_in_document * ThresholdDen >= cfg.threshold_answer_in_document

MachineReaderAnswer(answer_span) ==
    [word_indices |-> answer_span.word_indices,
     long_word_indices |-> answer_span.long_word_indices,
     score_reader |-> answer_span.score,
     score_answer_in_document |-> score_answer_in_document]

ReaderInit ==
    /\ y1_list = <<>>
    /\ y2_list = <<>>
    /\ norm = <<0, 0>>
    /\ already_used = {}
    /\ remaining_continuations = INITIAL_CONTINUATIONS
    /\ pc = "none"
    /\ selected = <<>>
    /\ suppressed = {}
    /\ event = "none"
    /\ last_score = NoScore
    /\ yielded = {}
    /\ yp_start = <<>>
    /\ yp_end = <<>>
    /\ counter = 0
    /\ records = <<>>
    /\ reader_pc = "idle"
    /\ n_tokens \in 0 .. MaxN
    /\ configuration \in Configurations
    /\ all_the_logits = <<>>
    /\ all_the_overlaps = <<>>
    /\ answers = <<>>
    /\ model_calls = <<>>
    /\ error = "none"
    /\ call = NoCall
    /\ result = NoResult
    /\ sessions = <<>>

\* MachineReader.get_document_embedding: the text goes to the model as it is.  What
\* the model does with a text of no tokens is its own affair: it answers or it raises.
GetDocumentEmbedding ==
    /\ reader_pc = "idle"
    /\ model_calls' = Append(model_calls, "get_document_embedding")
    /\ \/ /\ reader_pc' = "returned"
          /\ error' = "none"
       \/ /\ n_tokens = 0
          /\ reader_pc' = "failed"
          /\ error' = "ModelError"
    /\ UNCHANGED <<decoder_vars, spans_vars, n_tokens, configuration, all_the_logits,
                   all_the_overlaps, answers, api_vars>>

\* MachineReader.get_answers up to its return: get_logits(document_text, question)
\* (embedding from the model, token accounting, logits from the model), then the
\* generator of get_answers_from_logits is made, not yet run.
GetAnswers ==
    /\ reader_pc = "idle"
    /\ \/ /\ \E start_logits \in LogitVectors(n_tokens), end_logits \in LogitVectors(n_tokens) :
                all_the_logits' = <<[start |-> start_logits, end |-> end_logits]>>
          /\ all_the_overlaps' = << <<0, 0>> >>
          /\ model_calls' = model_calls \o <<"get_document_embedding", "get_logits">>
          /\ reader_pc' = "generator"
          /\ error' = "none"
       \/ /\ n_tokens = 0
          /\ model_calls' = Append(model_calls, "get_document_embedding")
          /\ reader_pc' = "failed"
          /\ error' = "ModelError"
          /\ UNCHANGED <<all_the_logits, all_the_overlaps>>
    /\ UNCHANGED <<decoder_vars, spans_vars, n_tokens, configuration, answers, api_vars>>

\* The first next() on the generator: stitching, the length assert, softmax,
\* tokenize, and find_best_spans up to its first while test.
StartDecoding ==
    /\ reader_pc = "generator"
    /\ Min(Len(all_the_logits), Len(all_the_overlaps)) > 0
    /\ LengthMatches(logits_array_start(all_the_logits, all_the_overlaps), n_tokens)
    /\ len(logits_array_start(all_the_logits, all_the_overlaps)) > 0
    /\ yp_start' = softmax(logits_array_start(all_the_logits, all_the_overlaps))
    /\ yp_end' = softmax(logits_array_end(all_the_logits, all_the_overlaps))
    /\ y1_list' = yp_start'
    /\ y2_list' = yp_end'
    /\ norm' = <<sum(yp_start'), sum(yp_end')>>
    /\ already_used' = {}
    /\ remaining_continuations' = INITIAL_CONTINUATIONS
    /\ pc' = "suspended"
    /\ counter' = 0
    /\ reader_pc' = "consuming"
    /\ UNCHANGED <<selected, suppressed, event, last_score, yielded, records, n_tokens,
                   configuration,
                   all_the_logits, all_the_overlaps, answers, model_calls, error, api_vars>>

\* The first next() on the generator fails before any decoding.
StartFails ==
    /\ reader_pc = "generator"
    /\ \/ /\ Min(Len(all_the_logits), Len(all_the_overlaps)) = 0
          /\ error' = "ValueError"          \* np.concatenate of no arrays
       \/ /\ Min(Len(all_the_logits), Len(all_the_overlaps)) > 0
          /\ ~LengthMatches(logits_array_start(all_the_logits, all_the_overlaps), n_tokens)
          /\ error' = "AssertionError"      \* logits length mismatch
       \/ /\ Min(Len(all_the_logits), Len(all_the_overlaps)) > 0
          /\ LengthMatches(logits_array_start(all_the_logits, all_the_overlaps), n_tokens)
          /\ len(logits_array_start(all_the_logits, all_the_overlaps)) = 0
          /\ error' = "ValueError"          \* np.max of an empty array, in softmax
    /\ reader_pc' = "failed"
    /\ UNCHANGED <<decoder_vars, spans_vars, n_tokens, configuration, all_the_logits,
                   all_the_overlaps, answers, model_calls, api_vars>>

\* find_best_spans: while counter < top_k: counter += 1; next(iterator).
Resume ==
    /\ reader_pc = "consuming"
    /\ counter < configuration.top_k
    /\ counter' = counter + 1
    /\ pc' = "running"
    /\ reader_pc' = "waiting"
    /\ UNCHANGED <<y1_list, y2_list, norm, already_used, remaining_continuations, selected,
                   suppressed,
                   event, last_score, yielded, yp_start, yp_end, records, n_tokens,
                   configuration, all_the_logits, all_the_overlaps, answers, model_calls,
                   error, api_vars>>

\* find_best_spans: the while test fails, the generator returns, the for loop ends.
Finish ==
    /\ reader_pc = "consuming"
    /\ counter >= configuration.top_k
    /\ reader_pc' = "done"
    /\ UNCHANGED <<decoder_vars, spans_vars, n_tokens, configuration, all_the_logits,
                   all_the_overlaps, answers, model_calls, error, api_vars>>

\* next(iterator) returned a span: the AnswerSpan is built and yielded, it meets the
\* thresholds, the MachineReaderAnswer is yielded.
Emit ==
    /\ reader_pc = "waiting"
    /\ pc = "suspended"
    /\ MeetsThresholds(AnswerSpan.score, configuration)
    /\ records' = Append(records, AnswerSpan)
    /\ answers' = Append(answers, MachineReaderAnswer(AnswerSpan))
    /\ reader_pc' = "consuming"
    /\ UNCHANGED <<decoder_vars, yp_start, yp_end, counter, n_tokens, configuration,
                   all_the_logits, all_the_overlaps, model_calls, error, api_vars>>

\* next(iterator) returned a span: the AnswerSpan is built and yielded, it fails a
\* threshold: break.
Break ==
    /\ reader_pc = "waiting"
    /\ pc = "suspended"
    /\ ~MeetsThresholds(AnswerSpan.score, configuration)
    /\ records' = Append(records, AnswerSpan)
    /\ reader_pc' = "stopped"
    /\ UNCHANGED <<decoder_vars, yp_start, yp_end, counter, n_tokens, configuration,
                   all_the_logits, all_the_overlaps, answers, model_calls, error, api_vars>>

\* Mutant: the StopIteration ends find_best_spans as if its loop had finished.
ExhaustedEndsNormally ==
    /\ reader_pc = "waiting"
    /\ pc = "ended"
    /\ reader_pc' = "done"
    /\ UNCHANGED <<decoder_vars, spans_vars, n_tokens, configuration, all_the_logits,
                   all_the_overlaps, answers, model_calls, error, api_vars>>

\* next(iterator) raised StopIteration inside the generator find_best_spans: it leaves
\* the generator as RuntimeError("generator raised StopIteration") and ends the call.
Exhausted ==
    /\ reader_pc = "waiting"
    /\ pc = "ended"
    /\ reader_pc' = "failed"
    /\ error' = "RuntimeError"
    /\ UNCHANGED <<decoder_vars, spans_vars, n_tokens, configuration, all_the_logits,
                   all_the_overlaps, answers, model_calls, api_vars>>

ReaderNext ==
    \/ GetDocumentEmbedding
    \/ GetAnswers
    \/ StartDecoding
    \/ StartFails
    \/ Resume
    \/ IterateSkip
    \/ IterateYield
    \/ Stop
    \/ Finish
    \/ Emit
    \/ Break
    \/ Exhausted

ReaderSpec == ReaderInit /\ [][ReaderNext]_vars

\* ------------------------------------------- MachineReader.get_logits, called directly
MaxOverlapTokens == 1   \* most tokens in before_overlap, and in after_overlap
MaxTextTokens == 2      \* most tokens in the text of a direct get_logits call

\* What tokenizing the concatenation may give against the three parts tokenized alone:
\* a token merged or split at a boundary, or the same count.
TotalCounts(n_before, n_text, n_after) ==
    {n \in {n_before + n_text + n_after - 1, n_before + n_text + n_after,
            n_before + n_text + n_after + 1} : n >= 0}

\* The calls get_logits(text, question, before_overlap, after_overlap, document_embedding):
\* the token counts _count_tokens finds, whether an embedding is supplied, and the logits
\* the model holds for the document (one entry per token of the concatenation).
GetLogitsCalls ==
    UNION {
      UNION {
        [op : {"get_logits"},
         document_embedding : BOOLEAN,
         n_before : {n_before}, n_text : {n_text}, n_after : {n_after},
         n_total : {n_total},
         model_logits : [start : LogitVectors(n_total), end : LogitVectors(n_total)]]
        : n_total \in TotalCounts(n_before, n_text, n_after)}
      : n_before \in 0 .. MaxOverlapTokens, n_text \in 0 .. MaxTextTokens,
        n_after \in 0 .. MaxOverlapTokens}

\* Mutant: the token accounting is not checked.
TokenAccountingIgnored(c) == TRUE

\* assert n_total == (n_before + n_text + n_after)
TokenAccountingHolds(c) == c.n_total = c.n_before + c.n_text + c.n_after

\* doc is assigned only inside "if document_embedding is None"; line 44 reads it.
DocIsBound(c) == ~c.document_embedding

\* return self.model.get_logits(question, document_embedding), (n_before, n_after)
GetLogitsResult(c) ==
    [kind |-> "logits", logits |-> c.model_logits, overlaps |-> <<c.n_before, c.n_after>>]

LogitsInit ==
    /\ y1_list = <<>>
    /\ y2_list = <<>>
    /\ norm = <<0, 0>>
    /\ already_used = {}
    /\ remaining_continuations = INITIAL_CONTINUATIONS
    /\ pc = "none"
    /\ selected = <<>>
    /\ suppressed = {}
    /\ event = "none"
    /\ last_score = NoScore
    /\ yielded = {}
    /\ yp_start = <<>>
    /\ yp_end = <<>>
    /\ counter = 0
    /\ records = <<>>
    /\ reader_pc = "idle"
    /\ call \in GetLogitsCalls
    /\ n_tokens = call.n_total
    /\ configuration = InitConfiguration
    /\ all_the_logits = <<>>
    /\ all_the_overlaps = <<>>
    /\ answers = <<>>
    /\ model_calls = <<>>
    /\ error = "none"
    /\ result = NoResult
    /\ sessions = <<>>

\* get_logits fails before anything is returned.
GetLogitsFails ==
    /\ reader_pc = "idle"
    /\ call.op = "get_logits"
    /\ \/ /\ ~call.document_embedding        \* the model refuses a text of no tokens
          /\ call.n_total = 0
          /\ model_calls' = Append(model_calls, "get_document_embedding")
          /\ error' = "ModelError"
       \/ /\ ~DocIsBound(call)               \* line 44 reads doc, never assigned
          /\ model_calls' = model_calls
          /\ error' = "UnboundLocalError"
       \/ /\ DocIsBound(call)                \* the assert of line 45 fails
          /\ ~TokenAccountingHolds(call)
          /\ model_calls' = IF call.document_embedding THEN model_calls
                            ELSE Append(model_calls, "get_document_embedding")
          /\ error' = "AssertionError"
    /\ reader_pc' = "failed"
    /\ UNCHANGED <<decoder_vars, spans_vars, n_tokens, configuration, all_the_logits,
                   all_the_overlaps, answers, call, result, sessions>>

\* get_logits returns: the embedding is requested unless one was supplied, the token
\* accounting holds, the logits are requested from the model.
GetLogitsReturns ==
    /\ reader_pc = "idle"
    /\ call.op = "get_logits"
    /\ DocIsBound(call)
    /\ TokenAccountingHolds(call)
    /\ model_calls' = IF call.document_embedding THEN Append(model_calls, "get_logits")
                      ELSE model_calls \o <<"get_document_embedding", "get_logits">>
    /\ result' = GetLogitsResult(call)
    /\ reader_pc' = "returned"
    /\ UNCHANGED <<decoder_vars, spans_vars, n_tokens, configuration, all_the_logits,
                   all_the_overlaps, answers, error, call, sessions>>

LogitsNext == GetLogitsFails \/ GetLogitsReturns

LogitsSpec == LogitsInit /\ [][LogitsNext]_vars

\* -------------------------------- MachineReader.get_answers_from_logits, called directly
MaxChunks == 2          \* longest all_the_logits and all_the_overlaps lists
MaxChunkLen == 2        \* most logits in one chunk

\* The logits the model gives for chunk k: one start and one end logit per token, the
\* two weights alternating along the chunk so that every entry shows where it came from.
ChunkLogits(k, n) ==
    [start |-> [i \in 0 .. n - 1 |-> IF (k + i) % 2 = 0 THEN MinWeight ELSE MaxWeight],
     end   |-> [i \in 0 .. n - 1 |-> IF (k + i) % 2 = 0 THEN MaxWeight ELSE MinWeight]]

\* The lists of m chunks whose lengths are drawn from 0 .. MaxChunkLen
LogitsLists(m) ==
    {[k \in 1 .. m |-> ChunkLogits(k, lens[k])] : lens \in [1 .. m -> 0 .. MaxChunkLen]}

OverlapsLists(m) ==
    [1 .. m -> (0 .. MaxOverlapTokens) \X (0 .. MaxOverlapTokens)]

\* The calls get_answers_from_logits(configuration, all_the_logits, all_the_overlaps,
\* all_combined_texts): the two lists, each of any length up to MaxChunks, and the token
\* count of all_combined_texts.
GetAnswersFromLogitsCalls ==
    UNION {
      [op : {"get_answers_from_logits"},
       all_the_logits : LogitsLists(m1),
       all_the_overlaps : OverlapsLists(m2),
       n_tokens : 0 .. MaxN]
      : m1 \in 0 .. MaxChunks, m2 \in 0 .. MaxChunks}

StitchInit ==
    /\ y1_list = <<>>
    /\ y2_list = <<>>
    /\ norm = <<0, 0>>
    /\ already_used = {}
    /\ remaining_continuations = INITIAL_CONTINUATIONS
    /\ pc = "none"
    /\ selected = <<>>
    /\ suppressed = {}
    /\ event = "none"
    /\ last_score = NoScore
    /\ yielded = {}
    /\ yp_start = <<>>
    /\ yp_end = <<>>
    /\ counter = 0
    /\ records = <<>>
    /\ reader_pc = "idle"
    /\ call \in GetAnswersFromLogitsCalls
    /\ n_tokens = call.n_tokens
    /\ configuration = InitConfiguration
    /\ all_the_logits = <<>>
    /\ all_the_overlaps = <<>>
    /\ answers = <<>>
    /\ model_calls = <<>>
    /\ error = "none"
    /\ result = NoResult
    /\ sessions = <<>>

\* get_answers_from_logits is called: a generator function, so the call only binds the
\* arguments; its body runs at the first next().
GetAnswersFromLogits ==
    /\ reader_pc = "idle"
    /\ call.op = "get_answers_from_logits"
    /\ all_the_logits' = call.all_the_logits
    /\ all_the_overlaps' = call.all_the_overlaps
    /\ reader_pc' = "generator"
    /\ UNCHANGED <<decoder_vars, spans_vars, n_tokens, configuration, answers, model_calls,
                   error, api_vars>>

\* With top_k = 1 and both thresholds 0 the decoder is asked for one span and the record
\* made of it is put out.
StitchNext ==
    \/ GetAnswersFromLogits
    \/ StartDecoding
    \/ StartFails
    \/ Resume
    \/ IterateYield
    \/ Emit
    \/ Finish

StitchSpec == StitchInit /\ [][StitchNext]_vars

\* ------------------------------------------- MachineReaderAnswer.__init__, called directly
\* Python values, by type: None, a str, an int, a float.
PyNone == [type |-> "NoneType"]

PyStr(s) == [type |-> "str", value |-> s]

PyInt(i) == [type |-> "int", value |-> i]

PyFloat(num, den) == [type |-> "float", num |-> num, den |-> den]

\* A score s stands for the number s / ScoreDen.
ScoreDen == ThresholdDen

Scores == {0 - 1, 0, 1, ScoreDen, ScoreDen + 1}

Texts == {PyNone, PyStr("test")}

SpanElements == {PyNone, PyInt(1), PyInt(5), PyFloat(3, 2)}

\* The pairs over SpanElements, and three sequences that are not pairs
Spans ==
    {<<a, b>> : a \in SpanElements, b \in SpanElements}
        \cup {<<>>, <<PyInt(1)>>, <<PyInt(1), PyInt(5), PyInt(5)>>}

MachineReaderAnswerCalls ==
    [op : {"MachineReaderAnswer"},
     text : Texts, span : Spans, long_text : Texts, long_text_span : Spans,
     score_reader : Scores, score_answer_in_document : Scores]

is_not_None(x) == x.type # "NoneType"

isinstance_int(x) == x.type = "int"

\* assert 0.0 <= score <= 1.0
ScoreAccepted(score) == 0 <= score /\ score <= ScoreDen

\* Mutant: the last assert on a span is missing.
SpanAcceptedWithoutLastAssert(span) ==
    /\ Len(span) = 2
    /\ ~is_not_None(span[1]) \/ isinstance_int(span[1])
    /\ ~is_not_None(span[2]) \/ isinstance_int(span[2])
    /\ isinstance_int(span[1]) => is_not_None(span[2])

\* The asserts on span (lines 37-43), the same as those on long_text_span (lines 44-50);
\* a Python tuple counts from 0, the sequence here from 1.
SpanAccepted(span) ==
    /\ Len(span) = 2
    /\ ~is_not_None(span[1]) \/ isinstance_int(span[1])
    /\ ~is_not_None(span[2]) \/ isinstance_int(span[2])
    /\ isinstance_int(span[1]) => is_not_None(span[2])
    /\ isinstance_int(span[2]) => is_not_None(span[1])

\* All the asserts of __init__ pass.
ConstructorAccepts(c) ==
    /\ is_not_None(c.text)
    /\ is_not_None(c.long_text)
    /\ ScoreAccepted(c.score_reader)
    /\ ScoreAccepted(c.score_answer_in_document)
    /\ SpanAccepted(c.span)
    /\ SpanAccepted(c.long_text_span)

\* The object __init__ leaves: the six attributes set from the arguments.
ConstructedAnswer(c) ==
    [kind |-> "MachineReaderAnswer",
     text |-> c.text, span |-> c.span,
     long_text |-> c.long_text, long_text_span |-> c.long_text_span,
     score_reader |-> c.score_reader,
     score_answer_in_document |-> c.score_answer_in_document]

AnswerInit ==
    /\ y1_list = <<>>
    /\ y2_list = <<>>
    /\ norm = <<0, 0>>
    /\ already_used = {}
    /\ remaining_continuations = INITIAL_CONTINUATIONS
    /\ pc = "none"
    /\ selected = <<>>
    /\ suppressed = {}
    /\ event = "none"
    /\ last_score = NoScore
    /\ yielded = {}
    /\ yp_start = <<>>
    /\ yp_end = <<>>
    /\ counter = 0
    /\ records = <<>>
    /\ reader_pc = "idle"
    /\ call \in MachineReaderAnswerCalls
    /\ n_tokens = 0
    /\ configuration = InitConfiguration
    /\ all_the_logits = <<>>
    /\ all_the_overlaps = <<>>
    /\ answers = <<>>
    /\ model_calls = <<>>
    /\ error = "none"
    /\ result = NoResult
    /\ sessions = <<>>

\* MachineReaderAnswer(...) with every assert passing: the object is made.
Construct ==
    /\ reader_pc = "idle"
    /\ call.op = "MachineReaderAnswer"
    /\ ConstructorAccepts(call)
    /\ result' = ConstructedAnswer(call)
    /\ reader_pc' = "returned"
    /\ UNCHANGED <<decoder_vars, spans_vars, n_tokens, configuration, all_the_logits,
                   all_the_overlaps, answers, model_calls, error, call, sessions>>

\* MachineReaderAnswer(...) with an assert failing: AssertionError, no object.
ConstructFails ==
    /\ reader_pc = "idle"
    /\ call.op = "MachineReaderAnswer"
    /\ ~ConstructorAccepts(call)
    /\ error' = "AssertionError"
    /\ reader_pc' = "failed"
    /\ UNCHANGED <<decoder_vars, spans_vars, n_tokens, configuration, all_the_logits,
                   all_the_overlaps, answers, model_calls, call, result, sessions>>

AnswerNext == Construct \/ ConstructFails

AnswerSpec == AnswerInit /\ [][AnswerNext]_vars

\* --------------------------------------------- find_best_spans, called directly
MaxExpansion == 2       \* largest long_text_expansion_in_words of a direct call

SessionIds == {1, 2}

\* The calls find_best_spans(context, context_offsets, y1_list, y2_list, top_k,
\* long_text_expansion_in_words); the vectors are in yp_start, yp_end.
FindBestSpansCalls ==
    [op : {"find_best_spans"}, top_k : 1 .. MaxTopK,
     long_text_expansion_in_words : 0 .. MaxExpansion]

\* A generator object of find_best_spans whose body has not started.
CreatedSession ==
    [at |-> "created", y1_list |-> <<>>, y2_list |-> <<>>, already_used |-> {},
     remaining_continuations |-> 0, pc |-> "none", counter |-> 0, records |-> <<>>]

\* Mutant: already_used is one interval set kept across sessions.
AlreadyUsedKept(held) == held

\* already_used = interval(): every session starts from an empty set, whatever
\* the sessions before it have used.
InitialAlreadyUsed(held) == {}

\* What all the sessions have put into their used sets so far
HeldBySessions == UNION {sessions[s].already_used : s \in DOMAIN sessions}

\* The vectors of n weights of which at most one is above MinWeight
PeakVectors(n) ==
    {v \in LogitVectors(n) : Cardinality({i \in DOMAIN v : v[i] > MinWeight}) <= 1}

\* Init of a specification of direct find_best_spans calls by the given sessions, the
\* two vectors of a document of n tokens drawn from vectors[n]
SessionsInit(ids, calls, vectors) ==
    /\ y1_list = <<>>
    /\ y2_list = <<>>
    /\ \E n \in 1 .. MaxN :
          /\ yp_start \in vectors[n]
          /\ yp_end \in vectors[n]
    /\ norm = <<sum(yp_start), sum(yp_end)>>
    /\ already_used = {}
    /\ remaining_continuations = INITIAL_CONTINUATIONS
    /\ pc = "none"
    /\ selected = <<>>
    /\ suppressed = {}
    /\ event = "none"
    /\ last_score = NoScore
    /\ yielded = {}
    /\ counter = 0
    /\ records = <<>>
    /\ reader_pc = "none"
    /\ call \in calls
    /\ n_tokens = len(yp_start)
    /\ configuration = InitConfiguration
    /\ all_the_logits = <<>>
    /\ all_the_overlaps = <<>>
    /\ answers = <<>>
    /\ model_calls = <<>>
    /\ error = "none"
    /\ result = NoResult
    /\ sessions = [s \in ids |-> CreatedSession]

SessionsUnchanged ==
    UNCHANGED <<decoder_vars, counter, records, reader_vars, call, result>>

\* The first next() on session s enters the body: counter = 0, the two copies, the
\* decoder generator made (its locals are set when it first runs, before any other step
\* of the session).
SessionStart(s) ==
    /\ sessions[s].at = "created"
    /\ sessions' = [sessions EXCEPT ![s] =
          [at |-> "consuming", y1_list |-> yp_start, y2_list |-> yp_end,
           already_used |-> InitialAlreadyUsed(HeldBySessions),
           remaining_continuations |-> INITIAL_CONTINUATIONS,
           pc |-> "suspended", counter |-> 0, records |-> <<>>]]
    /\ UNCHANGED <<yp_start, yp_end>>
    /\ SessionsUnchanged

\* while counter < top_k: counter += 1; next(iterator)
SessionResume(s) ==
    /\ sessions[s].at = "consuming"
    /\ sessions[s].counter < call.top_k
    /\ sessions' = [sessions EXCEPT ![s].counter = @ + 1, ![s].pc = "running",
                                    ![s].at = "waiting"]
    /\ UNCHANGED <<yp_start, yp_end>>
    /\ SessionsUnchanged

\* The while test fails: the generator returns.
SessionFinish(s) ==
    /\ sessions[s].at = "consuming"
    /\ sessions[s].counter >= call.top_k
    /\ sessions' = [sessions EXCEPT ![s].at = "done"]
    /\ UNCHANGED <<yp_start, yp_end>>
    /\ SessionsUnchanged

\* One iteration of the decoder of session s that ends in continue.
SessionSkip(s) ==
    /\ sessions[s].at = "waiting"
    /\ sessions[s].pc = "running"
    /\ AboveEpsilon(sessions[s].y1_list, norm[1])
    /\ \E it \in {Iteration(sessions[s].y1_list, sessions[s].y2_list,
                            sessions[s].already_used,
                            sessions[s].remaining_continuations)} :
          /\ it.skipped
          /\ sessions' = [sessions EXCEPT ![s].y1_list = it.y1, ![s].y2_list = it.y2,
                             ![s].already_used = it.used,
                             ![s].remaining_continuations = it.remaining]
          /\ yp_start' = CallerVectorAfterReset(yp_start, it.a, it.b)
          /\ yp_end' = CallerVectorAfterReset(yp_end, it.a, it.b)
    /\ SessionsUnchanged

\* One iteration of the decoder of session s that ends in the yield, and the AnswerSpan
\* find_best_spans makes of it and yields.
SessionYield(s) ==
    /\ sessions[s].at = "waiting"
    /\ sessions[s].pc = "running"
    /\ AboveEpsilon(sessions[s].y1_list, norm[1])
    /\ \E it \in {Iteration(sessions[s].y1_list, sessions[s].y2_list,
                            sessions[s].already_used,
                            sessions[s].remaining_continuations)} :
          /\ ~it.skipped
          /\ sessions' = [sessions EXCEPT ![s].y1_list = it.y1, ![s].y2_list = it.y2,
                             ![s].already_used = it.used,
                             ![s].remaining_continuations = it.remaining,
                             ![s].pc = "suspended",
                             ![s].records = Append(@, AnswerSpanOf(it.span_word_indices,
                                 it.score, len(yp_start),
                                 call.long_text_expansion_in_words)),
                             ![s].at = "consuming"]
          /\ yp_start' = CallerVectorAfterReset(yp_start, it.a, it.b)
          /\ yp_end' = CallerVectorAfterReset(yp_end, it.a, it.b)
    /\ SessionsUnchanged

\* The decoder of session s has no mass left: it ends, next(iterator) raises
\* StopIteration and find_best_spans ends in RuntimeError.
SessionExhausted(s) ==
    /\ sessions[s].at = "waiting"
    /\ sessions[s].pc = "running"
    /\ ~AboveEpsilon(sessions[s].y1_list, norm[1])
    /\ sessions' = [sessions EXCEPT ![s].pc = "ended", ![s].at = "failed"]
    /\ UNCHANGED <<yp_start, yp_end>>
    /\ SessionsUnchanged

SessionsNext ==
    \E s \in DOMAIN sessions :
        \/ SessionStart(s)
        \/ SessionResume(s)
        \/ SessionFinish(s)
        \/ SessionSkip(s)
        \/ SessionYield(s)
        \/ SessionExhausted(s)

\* One find_best_spans session, any expansion width up to MaxExpansion
SpansSpec ==
    SessionsInit({1}, FindBestSpansCalls, [n \in 1 .. MaxN |-> LogitVectors(n)])
        /\ [][SessionsNext]_vars

\* Two find_best_spans sessions on the same vectors, their steps interleaved
PairSpec ==
    SessionsInit(SessionIds,
                 {c \in FindBestSpansCalls :
                     c.long_text_expansion_in_words = MaxExpansion},
                 [n \in 1 .. MaxN |-> PeakVectors(n)])
        /\ [][SessionsNext]_vars

\* ------------------------------ the scan of find_answer_spans on a long document
\* One iteration's scan (lines 36-64) run index by index on vectors of LongN tokens,
\* which hold mass only at a few marked positions near the two ends of the document.
\* call holds the two vectors as the iteration finds them, result the scan's locals.

RECURSIVE SumOver(_, _)
SumOver(w, S) ==
    IF S = {} THEN 0
    ELSE SumOver(w, S \ {CHOOSE i \in S : TRUE}) + w[CHOOSE i \in S : TRUE]

NearMarks == 0 .. MaxMarks - 1

FarMarks(n) == n - MaxMarks .. n - 1

\* The vectors of n weights that are 0 outside marks
SparseVectors(n, marks) ==
    {[i \in 0 .. n - 1 |-> IF i \in marks THEN w[i] ELSE 0] :
        w \in {x \in [marks -> Weights] : SumOver(x, marks) <= MaxTotal}}

ScanCalls ==
    {[op |-> "scan", y1_list |-> y1, y2_list |-> y2] :
        y1 \in SparseVectors(LongN, NearMarks),
        y2 \in SparseVectors(LongN, NearMarks \cup FarMarks(LongN))}

\* The locals before the for loop is entered: cummax_y_start[0] and
\* cumargmax_y_start[0], the seed candidate (0, 0) and its product.
ScanStart(c) ==
    [kind |-> "scanning", i |-> 1,
     cummax_y_start |-> c.y1_list[0], cumargmax_y_start |-> 0,
     highest_max |-> c.y1_list[0] * c.y2_list[0] * PROPORTION_DEN,
     opt_pos_start |-> 0, opt_pos_end |-> 0]

\* cummax_y_start[i], from cummax_y_start[i - 1]
CummaxNext(prev_max, y1, i) == Max(prev_max, y1[i])

\* cumargmax_y_start[i], from cumargmax_y_start[i - 1]: i where y1_list[i] equals
\* cummax_y_start[i], the index before otherwise
CumargmaxNext(prev_argmax, prev_max, y1, i) ==
    IF y1[i] = CummaxNext(prev_max, y1, i) THEN i ELSE prev_argmax

\* The loop body at index r.i
ScanBody(r, y1, y2) ==
    IF ExceedsHighest(CummaxNext(r.cummax_y_start, y1, r.i)
                          * DecayedEndProb(y2[r.i], r.i,
                                CumargmaxNext(r.cumargmax_y_start, r.cummax_y_start,
                                              y1, r.i)),
                      r.highest_max)
    THEN [kind |-> "scanning", i |-> r.i + 1,
          cummax_y_start |-> CummaxNext(r.cummax_y_start, y1, r.i),
          cumargmax_y_start |->
              CumargmaxNext(r.cumargmax_y_start, r.cummax_y_start, y1, r.i),
          highest_max |-> CummaxNext(r.cummax_y_start, y1, r.i)
                              * DecayedEndProb(y2[r.i], r.i,
                                    CumargmaxNext(r.cumargmax_y_start,
                                                  r.cummax_y_start, y1, r.i)),
          opt_pos_start |->
              CumargmaxNext(r.cumargmax_y_start, r.cummax_y_start, y1, r.i),
          opt_pos_end |-> r.i]
    ELSE [r EXCEPT !.i = r.i + 1,
                   !.cummax_y_start = CummaxNext(r.cummax_y_start, y1, r.i),
                   !.cumargmax_y_start =
                       CumargmaxNext(r.cumargmax_y_start, r.cummax_y_start, y1, r.i)]

ScanInit ==
    /\ y1_list = <<>>
    /\ y2_list = <<>>
    /\ norm = <<0, 0>>
    /\ already_used = {}
    /\ remaining_continuations = INITIAL_CONTINUATIONS
    /\ pc = "none"
    /\ selected = <<>>
    /\ suppressed = {}
    /\ event = "none"
    /\ last_score = NoScore
    /\ yielded = {}
    /\ yp_start = <<>>
    /\ yp_end = <<>>
    /\ counter = 0
    /\ records = <<>>
    /\ reader_pc = "none"
    /\ call \in ScanCalls
    /\ n_tokens = 0
    /\ configuration = InitConfiguration
    /\ all_the_logits = <<>>
    /\ all_the_overlaps = <<>>
    /\ answers = <<>>
    /\ model_calls = <<>>
    /\ error = "none"
    /\ result = ScanStart(call)
    /\ sessions = <<>>

\* for i in range(1, len(y2_list)): one pass of the body
ScanStep ==
    /\ result.kind = "scanning"
    /\ result.i < len(call.y2_list)
    /\ result' = ScanBody(result, call.y1_list, call.y2_list)
    /\ UNCHANGED <<decoder_vars, spans_vars, reader_vars, call, sessions>>

\* The loop is over: span_word_indices = (opt_pos_start, opt_pos_end)
ScanDone ==
    /\ result.kind = "scanning"
    /\ result.i >= len(call.y2_list)
    /\ result' = [kind |-> "span",
                  span_word_indices |-> <<result.opt_pos_start, result.opt_pos_end>>]
    /\ UNCHANGED <<decoder_vars, spans_vars, reader_vars, call, sessions>>

ScanNext == ScanStep \/ ScanDone

ScanSpec == ScanInit /\ [][ScanNext]_vars

\* ====================================================================== claims
\* Two half-open ranges <<a, b>> share a token index.
Overlap(r1, r2) == Max(r1[1], r2[1]) < Min(r1[2], r2[2])

\* An iteration of the decoder's while loop was run and ended in continue.
SkipStep == pc = "running" /\ pc' = "running" /\ event' = "skip"

\* An iteration of the decoder's while loop was run and ended in the yield.
YieldStep == pc = "running" /\ pc' = "suspended"

\* C1: every span an iteration selects, yielded or skipped, has
\* 0 <= start <= end <= N - 1.
C1_SpanWithinBounds ==
    selected # <<>> =>
        /\ 0 <= selected[1]
        /\ selected[1] <= selected[2]
        /\ selected[2] <= len(y1_list) - 1

\* C1 witness: a skipped and a multi-token selection have both occurred.
C1_Witness == selected # <<>> /\ selected[1] < selected[2] /\ event = "skip"

\* C2: within a session every yielded score is at most the score yielded before it.
C2_ScoresNonIncreasing ==
    [][(YieldStep /\ last_score # NoScore /\ norm[1] > 0 /\ norm[2] > 0)
          => last_score' <= last_score]_vars

\* C3: while remaining_continuations is above 0, a span that is yielded has a
\* suppressed range sharing no token with the range of any span yielded before.
C3_NoOverlapWhileBudget ==
    [][(YieldStep /\ remaining_continuations' > 0) =>
          \A r \in yielded :
              ~Overlap(r, <<range_start(selected'[1]),
                            range_end(len(y1_list), selected'[2])>>)]_vars

\* C3 witness: two spans have been yielded and retries remain.
C3_Witness == Cardinality(yielded) >= 2 /\ remaining_continuations > 0

\* C4: on valid probability vectors (each with a positive sum), a consumer that keeps
\* consuming reaches the end of the sequence.
C4_SessionEnds == (norm[1] > 0 /\ norm[2] > 0) => <>(pc = "ended")

\* C5: the retry counter stays within 0 .. 100, it changes only in an iteration
\* that skips, which takes exactly one from it, and once it is 0 no iteration skips.
C5_SkipsBounded ==
    [][/\ remaining_continuations' \in 0 .. INITIAL_CONTINUATIONS
       /\ SkipStep => remaining_continuations' = remaining_continuations - 1
       /\ ~SkipStep => remaining_continuations' = remaining_continuations
       /\ remaining_continuations = 0 => ~SkipStep]_vars

\* C5 witness: the budget is used up and a candidate was yielded after that.
C5_Witness == remaining_continuations = 0 /\ event = "yield"

\* C6: find_best_spans ends normally only after exactly top_k records; when the decoder
\* runs out before that, the call ends with the error raised for it, not normally.
C6_ExactlyKOrExhaustion ==
    /\ reader_pc = "done" => (Len(records) = configuration.top_k /\ pc = "suspended")
    /\ error = "RuntimeError" =>
          (reader_pc = "failed" /\ pc = "ended" /\ Len(records) < configuration.top_k)
    /\ (pc = "ended" /\ reader_pc # "waiting") => error = "RuntimeError"

\* C6 witness: the decoder ran out after a record had been yielded, top_k asking for more.
C6_Witness == error = "RuntimeError" /\ Len(records) >= 1

\* C7: while and after find_best_spans runs, the vectors its caller handed over hold
\* the values they were given (the softmax of the stitched logits).
C7_CallerVectorsUntouched ==
    pc # "none" =>
        /\ yp_start = softmax(logits_array_start(all_the_logits, all_the_overlaps))
        /\ yp_end = softmax(logits_array_end(all_the_logits, all_the_overlaps))

\* C7 witness: the session has zeroed entries of its own vector, yielded a record and
\* run out of mass.
C7_Witness ==
    /\ error = "RuntimeError"
    /\ Len(records) >= 1
    /\ y1_list # yp_start
    /\ sum(y1_list) = 0

\* The reader score of a record is at least the configured threshold_reader.
ReaderScoreMeets(score) ==
    score * ThresholdDen >= configuration.threshold_reader * norm[1] * norm[2]

\* The answer-in-document score, 0, is at least the configured threshold.
DocumentScoreMeets == 0 >= configuration.threshold_answer_in_document

\* C8: the output is the longest prefix of the records find_best_spans yielded in
\* which every record meets both thresholds: the outputs are the first records in
\* order, each meets both thresholds, and a record left out is the last one
\* materialized, fails a threshold and has ended the output.
C8_OutputIsPassingPrefix ==
    /\ Len(answers) <= Len(records)
    /\ \A k \in 1 .. Len(answers) :
          /\ answers[k].word_indices = records[k].word_indices
          /\ answers[k].score_reader = records[k].score
          /\ ReaderScoreMeets(answers[k].score_reader)
          /\ DocumentScoreMeets
    /\ Len(records) > Len(answers) =>
          /\ Len(records) = Len(answers) + 1
          /\ reader_pc = "stopped"
          /\ ~(ReaderScoreMeets(records[Len(records)].score) /\ DocumentScoreMeets)

\* C8 witness: a record was put out and the next one failed a threshold.
C8_Witness == reader_pc = "stopped" /\ Len(answers) >= 1

\* C9 as claimed: the answer-in-document threshold never filters a record, whatever its
\* configured value: a record that ends the output fails the reader threshold.
C9_DocumentThresholdNeverFilters ==
    reader_pc = "stopped" => ~ReaderScoreMeets(records[Len(records)].score)

\* C9 amended: configured 0 (the default), the answer-in-document threshold never
\* filters a record; configured above 0, it filters every record and nothing is put out.
C9_DocumentThresholdInertAtZero ==
    /\ configuration.threshold_answer_in_document = 0 =>
          (reader_pc = "stopped" => ~ReaderScoreMeets(records[Len(records)].score))
    /\ configuration.threshold_answer_in_document > 0 => answers = <<>>

\* C9 witness: with the threshold above 0 the first record, whose reader score meets
\* its threshold, ended the output.
C9_Witness ==
    /\ configuration.threshold_answer_in_document > 0
    /\ reader_pc = "stopped"
    /\ ReaderScoreMeets(records[Len(records)].score)

\* C10: a call on a document of no tokens has failed with the empty-input error and
\* has made no call to the model.
C10_EmptyDocumentFailsFirst ==
    (n_tokens = 0 /\ reader_pc # "idle" /\ reader_pc # "none") =>
        (reader_pc = "failed" /\ error = "EmptyInputError" /\ model_calls = <<>>)

\* The token counts of a get_logits call agree: the concatenation has as many tokens
\* as its three parts together.
CountsAgree == call.n_total = call.n_before + call.n_text + call.n_after

\* C11: get_logits called with a document embedding, on texts whose token counts agree,
\* returns the model's logits and the overlap counts, and asks the model for no embedding.
C11_SuppliedEmbeddingReused ==
    (call.op = "get_logits" /\ call.document_embedding /\ CountsAgree
         /\ reader_pc # "idle") =>
        /\ reader_pc = "returned"
        /\ model_calls = <<"get_logits">>
        /\ result.kind = "logits"
        /\ result.logits = call.model_logits
        /\ result.overlaps = <<call.n_before, call.n_after>>

\* C12: get_logits called with no embedding returns the token counts of before_overlap
\* and after_overlap as its overlap counts, and when the token count of the concatenation
\* differs from n_before + n_text + n_after it fails, no logits requested or returned.
C12_OverlapCountsAndAccounting ==
    (call.op = "get_logits" /\ ~call.document_embedding /\ reader_pc # "idle") =>
        /\ reader_pc \in {"returned", "failed"}
        /\ reader_pc = "returned" =>
              /\ result.kind = "logits"
              /\ result.overlaps[1] = call.n_before
              /\ result.overlaps[2] = call.n_after
              /\ CountsAgree
        /\ ~CountsAgree =>
              /\ reader_pc = "failed"
              /\ result = NoResult
              /\ \A k \in 1 .. Len(model_calls) : model_calls[k] # "get_logits"

\* C12 witness: a call with no embedding, on a document that has tokens and differing
\* overlap counts, failed on the token accounting.
C12_Witness ==
    /\ call.op = "get_logits"
    /\ ~call.document_embedding
    /\ call.n_before # call.n_after
    /\ call.n_total > 0
    /\ reader_pc = "failed"
    /\ error = "AssertionError"


\* The number of chunks zip pairs up.
Paired == Min(Len(all_the_logits), Len(all_the_overlaps))

\* What chunk k keeps: its length less its two overlaps.
Kept(k) == len(all_the_logits[k].start) - all_the_overlaps[k][1] - all_the_overlaps[k][2]

\* What the chunks before chunk k keep together.
RECURSIVE KeptBefore(_)
KeptBefore(k) == IF k <= 1 THEN 0 ELSE KeptBefore(k - 1) + Kept(k - 1)

\* The two lists pair up chunk by chunk and no chunk's overlaps exceed its length.
WellFormedChunks ==
    /\ Len(all_the_logits) = Len(all_the_overlaps)
    /\ \A k \in 1 .. Paired : Kept(k) >= 0

\* C13: on well-formed chunks the global start and end arrays have the same length, the
\* sum over the chunks of length - before overlap - after overlap, and hold, chunk after
\* chunk, each chunk's logits from its before-overlap on up to its after-overlap.
C13_StitchedInChunkOrder ==
    (call.op = "get_answers_from_logits" /\ reader_pc # "idle" /\ WellFormedChunks) =>
        \A start \in {logits_array_start(all_the_logits, all_the_overlaps)} :
        \A end \in {logits_array_end(all_the_logits, all_the_overlaps)} :
            /\ len(start) = KeptBefore(Paired + 1)
            /\ len(end) = len(start)
            /\ \A k \in 1 .. Paired : \A j \in 0 .. Kept(k) - 1 :
                  /\ start[KeptBefore(k) + j] =
                         all_the_logits[k].start[all_the_overlaps[k][1] + j]
                  /\ end[KeptBefore(k) + j] =
                         all_the_logits[k].end[all_the_overlaps[k][1] + j]
            /\ pc # "none" => (yp_start = softmax(start) /\ yp_end = softmax(end))

\* C13 witness: two chunks of two tokens, the first with an after-overlap and the second
\* with a before-overlap, were stitched and decoded.
C13_Witness ==
    /\ call.op = "get_answers_from_logits"
    /\ reader_pc = "done"
    /\ Len(all_the_logits) = 2
    /\ WellFormedChunks
    /\ all_the_overlaps = << <<0, 1>>, <<1, 0>> >>
    /\ Kept(1) = 1
    /\ Kept(2) = 1

\* C14: when the stitched length differs from the token count of the combined text the
\* call has failed on the length assertion with nothing decoded and no record put out.
C14_LengthMismatchFails ==
    (/\ call.op = "get_answers_from_logits"
     /\ reader_pc \notin {"idle", "generator"}
     /\ Paired > 0
     /\ len(logits_array_start(all_the_logits, all_the_overlaps)) # n_tokens) =>
        /\ reader_pc = "failed"
        /\ error = "AssertionError"
        /\ pc = "none"
        /\ yp_start = <<>>
        /\ records = <<>>
        /\ answers = <<>>

\* C14 witness: two chunks were stitched to a length other than the token count, which
\* is above 0, and the call failed on the assertion.
C14_Witness ==
    /\ call.op = "get_answers_from_logits"
    /\ Paired = 2
    /\ len(logits_array_start(all_the_logits, all_the_overlaps)) > 0
    /\ n_tokens > 0
    /\ error = "AssertionError"

\* C15: when one of the two lists is empty or their lengths differ the call has failed
\* with nothing stitched, no softmax taken, nothing decoded and no record put out.
C15_StructuralPreconditions ==
    (/\ call.op = "get_answers_from_logits"
     /\ reader_pc \notin {"idle", "generator"}
     /\ \/ Len(all_the_logits) = 0
        \/ Len(all_the_overlaps) = 0
        \/ Len(all_the_logits) # Len(all_the_overlaps)) =>
        /\ reader_pc = "failed"
        /\ pc = "none"
        /\ yp_start = <<>>
        /\ answers = <<>>


\* A span is a pair whose two elements are both None or both integers.
BothNoneOrBothIntegers(span) ==
    /\ Len(span) = 2
    /\ \/ span[1] = PyNone /\ span[2] = PyNone
       \/ span[1].type = "int" /\ span[2].type = "int"

\* The arguments the claim calls valid.
ValidAnswerArguments ==
    /\ call.text # PyNone
    /\ call.long_text # PyNone
    /\ call.score_reader \in 0 .. ScoreDen
    /\ call.score_answer_in_document \in 0 .. ScoreDen
    /\ BothNoneOrBothIntegers(call.span)
    /\ BothNoneOrBothIntegers(call.long_text_span)

\* C16: a MachineReaderAnswer is constructed, holding its arguments, exactly when the
\* arguments are valid; any other construction fails and leaves no record.
C16_ConstructsExactlyValid ==
    (call.op = "MachineReaderAnswer" /\ reader_pc # "idle") =>
        /\ ValidAnswerArguments =>
              /\ reader_pc = "returned"
              /\ result.kind = "MachineReaderAnswer"
              /\ result.text = call.text
              /\ result.span = call.span
              /\ result.long_text = call.long_text
              /\ result.long_text_span = call.long_text_span
              /\ result.score_reader = call.score_reader
              /\ result.score_answer_in_document = call.score_answer_in_document
        /\ ~ValidAnswerArguments =>
              /\ reader_pc = "failed"
              /\ error = "AssertionError"
              /\ result = NoResult

\* C16 witness: a construction failed on nothing but a long_text_span whose first
\* element is absent and whose second is present.
C16_Witness ==
    /\ call.op = "MachineReaderAnswer"
    /\ reader_pc = "failed"
    /\ call.text # PyNone
    /\ call.long_text # PyNone
    /\ call.score_reader = ScoreDen
    /\ call.score_answer_in_document = 0
    /\ call.span = <<PyNone, PyNone>>
    /\ call.long_text_span = <<PyNone, PyInt(5)>>


\* C17: every record of a find_best_spans session with expansion width w on a document
\* of N tokens has the long range (max(0, start - w), min(N - 1, end + w)), which
\* holds the short span and lies within 0 .. N - 1.
C17_LongRangeClipped ==
    call.op = "find_best_spans" =>
        \A s \in DOMAIN sessions : \A k \in 1 .. Len(sessions[s].records) :
            \A r \in {sessions[s].records[k]} :
            \A w \in {call.long_text_expansion_in_words} :
                /\ r.long_word_indices[1] =
                       (IF r.word_indices[1] - w < 0 THEN 0 ELSE r.word_indices[1] - w)
                /\ r.long_word_indices[2] =
                       (IF r.word_indices[2] + w > len(yp_start) - 1
                        THEN len(yp_start) - 1 ELSE r.word_indices[2] + w)
                /\ 0 <= r.long_word_indices[1]
                /\ r.long_word_indices[1] <= r.word_indices[1]
                /\ r.word_indices[2] <= r.long_word_indices[2]
                /\ r.long_word_indices[2] <= len(yp_start) - 1

\* C17 witness: a record whose long range is cut off at the start of the document and
\* reaches its full width, short of the last token, at the other end.
C17_Witness ==
    /\ call.op = "find_best_spans"
    /\ \E s \in DOMAIN sessions : \E k \in 1 .. Len(sessions[s].records) :
          /\ sessions[s].records[k].word_indices[1] < call.long_text_expansion_in_words
          /\ sessions[s].records[k].long_word_indices[1] = 0
          /\ sessions[s].records[k].long_word_indices[2] =
                 sessions[s].records[k].word_indices[2] + call.long_text_expansion_in_words
          /\ sessions[s].records[k].long_word_indices[2] < len(yp_start) - 1

\* The records a session yields in its first k next() calls when it runs alone, from
\* the decoder state (y1, y2, used, remaining).
RECURSIVE AloneFrom(_, _, _, _, _)
AloneFrom(y1, y2, used, remaining, k) ==
    IF k = 0 \/ ~AboveEpsilon(y1, norm[1]) THEN <<>>
    ELSE CHOOSE rs \in
            {IF it.skipped THEN AloneFrom(it.y1, it.y2, it.used, it.remaining, k)
             ELSE <<AnswerSpanOf(it.span_word_indices, it.score, len(y1),
                                 call.long_text_expansion_in_words)>>
                      \o AloneFrom(it.y1, it.y2, it.used, it.remaining, k - 1)
             : it \in {Iteration(y1, y2, used, remaining)}} : TRUE

\* The records of a session on the caller's vectors that runs alone and is asked k times.
Alone(y1, y2, k) == AloneFrom(y1, y2, {}, INITIAL_CONTINUATIONS, k)

\* p is q or a beginning of q.
IsPrefix(p, q) == Len(p) <= Len(q) /\ \A i \in 1 .. Len(p) : p[i] = q[i]

\* C19: whatever the interleaving, each of the two sessions has yielded the records it
\* yields alone: after counter next() calls, the first records of the lone run, all of
\* those of counter calls once the call has returned; it ends normally exactly when the
\* lone run gives top_k records.
C19_SessionsIndependent ==
    (call.op = "find_best_spans" /\ DOMAIN sessions = SessionIds) =>
        \A s \in SessionIds :
            sessions[s].at # "created" =>
                \A seq \in {Alone(yp_start, yp_end, sessions[s].counter)} :
                    /\ IsPrefix(sessions[s].records, seq)
                    /\ sessions[s].at \in {"consuming", "done"} =>
                          sessions[s].records = seq
                    /\ sessions[s].at = "done" => Len(seq) = call.top_k
                    /\ sessions[s].at = "failed" => Len(seq) < sessions[s].counter


\* C19 witness: both sessions have returned after two records each, and the first has
\* skipped a candidate on the way.
C19_Witness ==
    /\ call.op = "find_best_spans"
    /\ DOMAIN sessions = SessionIds
    /\ Len(sessions[1].records) = 2
    /\ Len(sessions[2].records) = 2
    /\ sessions[1].remaining_continuations < INITIAL_CONTINUATIONS
    /\ sessions[1].at = "done"
    /\ sessions[2].at = "done"


\* C18: with both thresholds 0, every record the decoder gives is put out, the output
\* never stops early, and the call that returns has put out exactly top_k answers; it
\* fails only where the decoder ran out of mass before its top_k-th span.
C18_DefaultThresholdsGiveTopK ==
    (/\ call.op = "none"
     /\ configuration.threshold_reader = 0
     /\ configuration.threshold_answer_in_document = 0
     /\ n_tokens > 0) =>
        /\ reader_pc # "stopped"
        /\ Len(answers) = Len(records)
        /\ reader_pc = "done" => Len(answers) = configuration.top_k
        /\ reader_pc = "failed" =>
              (pc = "ended" /\ Len(records) < configuration.top_k)

\* C18 witness: get_answers with default thresholds and top_k = MaxTopK has returned
\* MaxTopK answers.
C18_Witness ==
    /\ call.op = "none"
    /\ configuration.threshold_reader = 0
    /\ configuration.threshold_answer_in_document = 0
    /\ configuration.top_k = MaxTopK
    /\ reader_pc = "done"
    /\ Len(answers) = MaxTopK

\* The largest of y1[0 .. e]
PrefixMaximum(y1, e) == CHOOSE m \in {y1[j] : j \in 0 .. e} : \A j \in 0 .. e : y1[j] <= m

\* The smallest j <= e at which y1 has the largest value of y1[0 .. e]
EarliestArgmax(y1, e) ==
    CHOOSE j \in 0 .. e :
        /\ y1[j] = PrefixMaximum(y1, e)
        /\ \A k \in 0 .. j - 1 : y1[k] < PrefixMaximum(y1, e)

\* C20: in every iteration on valid vectors, the start paired with the selected end e is
\* the earliest index at which the start vector, as the iteration found it, has the
\* maximum of its entries 0 .. e.
C20_TiesKeepEarliest ==
    [][((SkipStep \/ YieldStep) /\ norm[1] > 0 /\ norm[2] > 0) =>
          selected'[1] = EarliestArgmax(y1_list, selected'[2])]_vars

\* The decay factor of a pair whose end is d tokens past its start, times PROPORTION_DEN
DecayFactor(d) == Max(0, PROPORTION_DEN - d)

\* start[s] * end[e] * max(0, 1 - 0.01 * (e - s)), times PROPORTION_DEN
DecayedPairScore(y1, y2, s, e) == y1[s] * y2[e] * DecayFactor(e - s)

\* The largest decayed score over all pairs s <= e: what a scan of all pairs arrives at.
NaiveBest(y1, y2) ==
    CHOOSE m \in {DecayedPairScore(y1, y2, s, e) : s \in 0 .. len(y1) - 1, e \in 0 .. len(y1) - 1} :
        /\ \E s \in 0 .. len(y1) - 1 : \E e \in s .. len(y1) - 1 :
              m = DecayedPairScore(y1, y2, s, e)
        /\ \A s \in 0 .. len(y1) - 1 : \A e \in s .. len(y1) - 1 :
              DecayedPairScore(y1, y2, s, e) <= m

\* The largest j <= e at which y1 has the largest value of y1[0 .. e]
LatestArgmax(y1, e) ==
    CHOOSE j \in 0 .. e :
        /\ y1[j] = PrefixMaximum(y1, e)
        /\ \A k \in j + 1 .. e : y1[k] < PrefixMaximum(y1, e)

\* C21 as stated: in every iteration on valid vectors the pair the prefix-maximum scan selects has the
\* largest decayed score start[s] * end[e] * max(0, 1 - 0.01 * (e - s)) of all pairs
\* s <= e, the value a scan of all pairs would find.
C21_ScanFindsNaiveBest ==
    [][((SkipStep \/ YieldStep) /\ norm[1] > 0 /\ norm[2] > 0) =>
          DecayedPairScore(y1_list, y2_list, selected'[1], selected'[2])
              = NaiveBest(y1_list, y2_list)]_vars

\* C21 amended: in every iteration the selected pair (s, e) has for its start the latest
\* index holding the prefix maximum of the start vector over 0 .. e, and its decayed score
\* is the largest among the pairs (latest prefix argmax at i, i), one for each end i; a
\* pair whose start is not the prefix argmax of its end is not considered.
C21_ScanFindsBestPrefixPair ==
    [][(SkipStep \/ YieldStep) =>
          /\ selected'[1] = LatestArgmax(y1_list, selected'[2])
          /\ \A i \in 0 .. len(y1_list) - 1 :
                DecayedPairScore(y1_list, y2_list, LatestArgmax(y1_list, i), i)
                    <= DecayedPairScore(y1_list, y2_list, selected'[1], selected'[2])]_vars

\* C21 witness: an iteration selected a span of three tokens or more, whose end
\* probability was decayed, and yielded it as the first span of the session.
C21_Witness ==
    /\ event = "yield"
    /\ selected[2] - selected[1] >= 2
    /\ Cardinality(yielded) = 1
    /\ remaining_continuations = INITIAL_CONTINUATIONS

\* C22: on valid vectors, while remaining_continuations is above 0, an iteration's candidate is skipped
\* (not yielded, the counter one lower, the used set as it was) exactly when its
\* half-open suppressed range shares a token index with a range used before; otherwise
\* its range is merged into the used set and the span is yielded.
C22_SkipsExactlyOnSharedToken ==
    [][((SkipStep \/ YieldStep) /\ remaining_continuations > 0
                                   /\ norm[1] > 0 /\ norm[2] > 0) =>
          IF \E u \in already_used :
                Overlap(u, <<range_start(selected'[1]),
                             range_end(len(y1_list), selected'[2])>>)
          THEN /\ SkipStep
               /\ remaining_continuations' = remaining_continuations - 1
               /\ already_used' = already_used
          ELSE /\ YieldStep
               /\ remaining_continuations' = remaining_continuations
               /\ already_used' = already_used
                     \cup {<<range_start(selected'[1]),
                             range_end(len(y1_list), selected'[2])>>}]_vars

\* C23: in a session on valid vectors, once a span (start, end) has been selected and
\* suppressed, no later iteration of the session selects that same pair.
C23_NeverSelectedAgain ==
    [][((SkipStep \/ YieldStep) /\ norm[1] > 0 /\ norm[2] > 0) =>
          selected' \notin suppressed]_vars

C25_SymmetricMargin ==
    [][((SkipStep \/ YieldStep) /\ norm[1] > 0 /\ norm[2] > 0) =>
          /\ selected'[1] - 1 >= 0 =>
                y1_list'[selected'[1] - 1] = 0 /\ y2_list'[selected'[1] - 1] = 0
          /\ selected'[2] + 1 <= len(y1_list) - 1 =>
                y1_list'[selected'[2] + 1] = 0 /\ y2_list'[selected'[2] + 1] = 0]_vars

\* C26: the score reported with a yielded span (start, end) is the product of the start
\* value at start and the end value at end as the vectors held them before the
\* iteration's suppression; the decay of the scan is no part of it.
C26_ScoreIsUndecayedProduct ==
    [][YieldStep =>
          last_score' = y1_list[selected'[1]] * y2_list[selected'[2]]]_vars

\* C26 witness: a span whose end lies past its start, so that the scan decayed its end
\* probability, was yielded with a score above 0.
C26_Witness == event = "yield" /\ selected[1] < selected[2] /\ last_score > 0

\* The start vector's remaining mass is not above EPSILON (weights over norm[1]).
MassNotAboveEpsilon == sum(y1_list) * EPSILON_DEN <= norm[1]

\* C27: the stop condition is tested before every selection: an iteration runs only
\* when the start vector's sum is above 1e-6; when it is not (as with an all-zero start
\* vector on entry) the sequence ends at once, with no span selected or yielded and
\* neither vector written to, whatever the end vector holds; an ended sequence stays
\* ended.
C27_StopsBeforeSelecting ==
    [][/\ (SkipStep \/ YieldStep) => ~MassNotAboveEpsilon
       /\ (pc = "running" /\ MassNotAboveEpsilon) =>
             /\ pc' = "ended"
             /\ UNCHANGED <<y1_list, y2_list, selected, suppressed, event, last_score,
                            yielded, already_used, remaining_continuations>>
       /\ pc = "ended" => UNCHANGED decoder_vars]_vars

\* C27 witness: a session entered with an all-zero start vector and mass in the end
\* vector has ended without an iteration.
C27_Witness ==
    /\ pc = "ended"
    /\ event = "none"
    /\ norm[1] = 0
    /\ sum(y2_list) > 0

\* C28: throughout a session every entry of both vectors is at least 0 and no step
\* raises an entry (so a zeroed entry stays zero), remaining_continuations stays in
\* 0 .. 100 and no step raises it, and no step takes an interval out of the used set.
C28_SessionMonotone ==
    [][/\ \A i \in DOMAIN y1_list :
             /\ 0 <= y1_list'[i] /\ y1_list'[i] <= y1_list[i]
             /\ 0 <= y2_list'[i] /\ y2_list'[i] <= y2_list[i]
       /\ DOMAIN y1_list' = DOMAIN y1_list
       /\ remaining_continuations' \in 0 .. 100
       /\ remaining_continuations' <= remaining_continuations
       /\ already_used \subseteq already_used']_vars

\* C28 witness: a session has skipped a candidate and holds two used intervals, with
\* start mass zeroed.
C28_Witness ==
    /\ remaining_continuations < INITIAL_CONTINUATIONS
    /\ Cardinality(already_used) >= 2
    /\ sum(y1_list) < norm[1]

\* C29: the span a scan has selected so far, and the span it ends with, has
\* end - start <= 99, on a document of more than 100 tokens as well: an end position
\* 100 or more tokens past the prefix-argmax start has a decayed probability of 0 and
\* does not exceed the maximum held.
C29_SpanShorterThanDecay ==
    /\ result.kind = "scanning" => result.opt_pos_end - result.opt_pos_start <= 99
    /\ result.kind = "span" =>
          result.span_word_indices[2] - result.span_word_indices[1] <= 99

\* C29 witness: a scan ended with a span of end - start = 99, on vectors in which an
\* end position 100 tokens past that start held mass too.
C29_Witness ==
    /\ result.kind = "span"
    /\ result.span_word_indices[2] - result.span_word_indices[1] = 99
    /\ result.span_word_indices[1] + 100 \in DOMAIN call.y2_list
    /\ call.y2_list[result.span_word_indices[1] + 100] > 0

====
